---- MODULE Spec2Model ----
(***************************************************************************)
(* Model of openmemory/api/app/routers/profile.py: the profile router      *)
(* (phone number verification and SMS settings) and the request validator  *)
(* PhoneNumberRequest.validate_phone_number.                               *)
(*                                                                         *)
(* The persisted state is the users table.  A handler is one action: it    *)
(* loads the caller's row, runs the checks of the code in their order,     *)
(* mutates the row and commits.  `last' records the response of the last   *)
(* request (status, what the handler did on its way).                      *)
(***************************************************************************)
EXTENDS Integers, Sequences, FiniteSets, TLC

\* ------------------------------------------------------------------ bounds
NumUsers  == 2      \* rows of the users table
NumPhones == 2      \* distinct normalised phone numbers that are requested
NumCodes  == 1      \* distinct verification codes the generator yields
MaxRawLen == 12     \* validator inputs: characters of the raw phone number
MaxOther  == 3      \* validator inputs: characters other than the digit "2"

\* ------------------------------------------------------- program constants
MaxAttempts == 5    \* add_phone_number: phone_verification_attempts >= 5
NationalLen == 10   \* validate_phone_number: len(cleaned) != 10

Users  == 1..NumUsers
Phones == 1..NumPhones
Codes  == 1..NumCodes
NoPhone == 0        \* phone_number IS NULL
NoCode  == 0        \* no 'sms_verification' entry in metadata_
Submitted == Codes \cup {NoCode}   \* request codes: NoCode is a code never generated
Tiers  == {"FREE", "PRO", "ENTERPRISE"}

VARIABLES
  users,            \* the users table: user id -> row
  is_configured,    \* sms_config.is_configured
  last,             \* the response to the last request
  inflight,         \* add_phone_number requests between their check and their write
  raw,              \* validator: the raw phone_number of the request body
  validated         \* validator: the outcome of validate_phone_number on raw

vars == <<users, is_configured, last, inflight, raw, validated>>

\* A freshly provisioned row (get_or_create_user).  phone_verified and
\* phone_verification_attempts are read by the router only through
\* `x or False' / `x or 0' / `not x', so NULL and False / 0 are one value here;
\* sms_enabled keeps its NULL, which get_profile reports as True.
NewUser(tier) ==
  [ subscription_tier           |-> tier,
    phone_number                |-> NoPhone,
    phone_verified              |-> FALSE,
    phone_verification_attempts |-> 0,
    phone_verified_at           |-> FALSE,
    sms_enabled                 |-> "None",
    sms_verification            |-> NoCode ]

NoRequest ==
  [ op |-> "none", user |-> 0, status |-> "none", phone |-> NoPhone,
    commits |-> 0, commit_failed |-> FALSE, rolled_back |-> FALSE,
    code_generated |-> FALSE, code_stored |-> FALSE, code_sent |-> FALSE ]

NotValidated == [ done |-> FALSE, ok |-> FALSE, value |-> <<>> ]

Idle == [ active |-> FALSE, phone |-> NoPhone, attempts |-> 0 ]

\* The response of a request that performed no commit and touched no collaborator.
Response(op, u, p, status) ==
  [ NoRequest EXCEPT !.op = op, !.user = u, !.phone = p, !.status = status ]

\* SubscriptionChecker.check_pro_features: passes for Pro and Enterprise.
check_pro_features(user) == user.subscription_tier \in {"PRO", "ENTERPRISE"}

\* db.query(User).filter(User.phone_number == p, User.id != user.id).first()
existing_user(u, p) == \E o \in Users : o # u /\ users[o].phone_number = p

Init ==
  /\ users \in [Users -> {NewUser(t) : t \in Tiers}]
  /\ is_configured \in BOOLEAN
  /\ last = NoRequest
  /\ inflight = [u \in Users |-> Idle]
  /\ raw = <<>>
  /\ validated = NotValidated

\* ---------------------------------------------------------- add_phone_number
\* Faulty variant of AddPrecondition: the cap compared with > instead of >=.
AddPreconditionOffByOne(u, p) ==
  IF ~check_pro_features(users[u]) THEN "permission"
  ELSE IF ~is_configured THEN "503"
  ELSE IF users[u].phone_verification_attempts > MaxAttempts THEN "429"
  ELSE IF existing_user(u, p) THEN "409"
  ELSE "ok"

\* Faulty variant of AddPrecondition: the checks in another order.
AddPreconditionReordered(u, p) ==
  IF ~is_configured THEN "503"
  ELSE IF ~check_pro_features(users[u]) THEN "permission"
  ELSE IF existing_user(u, p) THEN "409"
  ELSE IF users[u].phone_verification_attempts >= MaxAttempts THEN "429"
  ELSE "ok"

\* The preconditions of add_phone_number, in the order of the code: the first
\* one that fails is the response; "ok" when all pass.
AddPrecondition(u, p) ==
  IF ~check_pro_features(users[u]) THEN "permission"
  ELSE IF ~is_configured THEN "503"
  ELSE IF users[u].phone_verification_attempts >= MaxAttempts THEN "429"
  ELSE IF existing_user(u, p) THEN "409"
  ELSE "ok"

\* Faulty variant of AddedRow: the attempt counted twice.
AddedRowCountsTwice(user, p, attempts) ==
  [ user EXCEPT !.phone_number = p,
                !.phone_verified = FALSE,
                !.phone_verification_attempts = attempts + 2 ]

\* Lines 148-151: the row as add_phone_number updates it.
AddedRow(user, p, attempts) ==
  [ user EXCEPT !.phone_number = p,
                !.phone_verified = FALSE,
                !.phone_verification_attempts = attempts + 1 ]

\* Faulty variant of AddEffect: the row updated before the code is stored,
\* so that a failed send leaves the phone number behind.
AddEffectEarlyUpdate(u, p, attempts) ==
  \E code \in Codes, store_ok \in BOOLEAN, send_ok \in BOOLEAN, commit_ok \in BOOLEAN :
    LET updated == [users EXCEPT ![u] = AddedRow(@, p, attempts)]
        stored  == [updated EXCEPT ![u].sms_verification = code]
        resp    == [Response("add", u, p, "500") EXCEPT !.code_generated = TRUE]
    IN  IF ~store_ok THEN
          /\ users' = users
          /\ last' = resp
        ELSE IF ~send_ok THEN
          /\ users' = stored
          /\ last' = [resp EXCEPT !.code_stored = TRUE]
        ELSE IF ~commit_ok THEN
          /\ users' = stored
          /\ last' = [resp EXCEPT !.code_stored = TRUE, !.code_sent = TRUE,
                                  !.commits = 1, !.commit_failed = TRUE,
                                  !.rolled_back = TRUE]
        ELSE
          /\ users' = stored
          /\ last' = [resp EXCEPT !.status = "ok", !.code_stored = TRUE,
                                  !.code_sent = TRUE, !.commits = 1]

\* Lines 130-158: generate, store and send the code, update the row, commit.
\* `attempts' is user.phone_verification_attempts as the request's session
\* loaded it.  store_verification_code persists the pending entry itself.
AddEffect(u, p, attempts) ==
  \E code \in Codes, store_ok \in BOOLEAN, send_ok \in BOOLEAN, commit_ok \in BOOLEAN :
    LET stored == [users EXCEPT ![u].sms_verification = code]
        resp   == [Response("add", u, p, "500") EXCEPT !.code_generated = TRUE]
    IN  IF ~store_ok THEN
          /\ users' = users
          /\ last' = resp
        ELSE IF ~send_ok THEN
          /\ users' = stored
          /\ last' = [resp EXCEPT !.code_stored = TRUE]
        ELSE IF ~commit_ok THEN
          /\ users' = stored
          /\ last' = [resp EXCEPT !.code_stored = TRUE, !.code_sent = TRUE,
                                  !.commits = 1, !.commit_failed = TRUE,
                                  !.rolled_back = TRUE]
        ELSE
          /\ users' = [stored EXCEPT ![u] = AddedRow(@, p, attempts)]
          /\ last' = [resp EXCEPT !.status = "ok", !.code_stored = TRUE,
                                  !.code_sent = TRUE, !.commits = 1]

add_phone_number(u, p) ==
  /\ IF AddPrecondition(u, p) # "ok"
       THEN /\ users' = users
            /\ last' = Response("add", u, p, AddPrecondition(u, p))
       ELSE AddEffect(u, p, users[u].phone_verification_attempts)
  /\ UNCHANGED <<is_configured, inflight, raw, validated>>

\* ------------------------------------------------------- verify_phone_number
\* SMSVerification.verify_code: the code matches the pending entry of the
\* user's metadata and the entry has not expired.
verify_code(user, code, expired) ==
  /\ user.sms_verification # NoCode
  /\ user.sms_verification = code
  /\ ~expired

\* SMSVerification.verify_code on a match: the phone is marked verified, and
\* the pending entry may be consumed.
MarkedVerified(user, consume) ==
  [ user EXCEPT !.phone_verified = TRUE,
                !.phone_verified_at = TRUE,
                !.sms_verification = IF consume THEN NoCode ELSE @ ]

\* Faulty variant of VerifiedRow: the attempt counter not reset.
VerifiedRowKeepsCounter(user) ==
  [ user EXCEPT !.sms_enabled = "True" ]

\* Lines 190-192: reset the attempt counter and enable SMS.
VerifiedRow(user) ==
  [ user EXCEPT !.phone_verification_attempts = 0,
                !.sms_enabled = "True" ]

\* The commit of line 193 stands outside any try block: when it fails the
\* exception leaves the handler, no rollback is called, and the framework
\* answers 500.
verify_phone_number(u, code) ==
  /\ IF ~check_pro_features(users[u]) THEN
       /\ users' = users
       /\ last' = Response("verify", u, NoPhone, "permission")
     ELSE IF users[u].phone_number = NoPhone THEN
       /\ users' = users
       /\ last' = Response("verify", u, NoPhone, "400")
     ELSE \E expired \in BOOLEAN :
       IF verify_code(users[u], code, expired) THEN
         \E consume \in BOOLEAN, commit_ok \in BOOLEAN :
           IF commit_ok THEN
             /\ users' = [users EXCEPT ![u] = VerifiedRow(MarkedVerified(@, consume))]
             /\ last' = [Response("verify", u, users[u].phone_number, "ok")
                           EXCEPT !.commits = 1]
           ELSE
             /\ users' = users
             /\ last' = [Response("verify", u, users[u].phone_number, "500")
                           EXCEPT !.commits = 1, !.commit_failed = TRUE]
       ELSE
         /\ users' = users
         /\ last' = Response("verify", u, users[u].phone_number, "400")
  /\ UNCHANGED <<is_configured, inflight, raw, validated>>

\* ------------------------------------------------------- remove_phone_number
\* Faulty variant of RemovedRow: the attempt counter not reset.
RemovedRowKeepsCounter(user) ==
  [ user EXCEPT !.phone_number = NoPhone,
                !.phone_verified = FALSE,
                !.phone_verified_at = FALSE,
                !.sms_enabled = "False",
                !.sms_verification = NoCode ]

\* Lines 215-224: every phone and SMS field back to its empty value.
RemovedRow(user) ==
  [ user EXCEPT !.phone_number = NoPhone,
                !.phone_verified = FALSE,
                !.phone_verification_attempts = 0,
                !.phone_verified_at = FALSE,
                !.sms_enabled = "False",
                !.sms_verification = NoCode ]

remove_phone_number(u) ==
  /\ \E commit_ok \in BOOLEAN :
       IF commit_ok THEN
         /\ users' = [users EXCEPT ![u] = RemovedRow(@)]
         /\ last' = [Response("remove", u, NoPhone, "ok") EXCEPT !.commits = 1]
       ELSE
         /\ users' = users
         /\ last' = [Response("remove", u, NoPhone, "500")
                       EXCEPT !.commits = 1, !.commit_failed = TRUE,
                              !.rolled_back = TRUE]
  /\ UNCHANGED <<is_configured, inflight, raw, validated>>

\* ------------------------------------------------------- update_sms_settings
SettingsRow(user, enabled) ==
  [ user EXCEPT !.sms_enabled = IF enabled THEN "True" ELSE "False" ]

update_sms_settings(u, enabled) ==
  /\ IF ~users[u].phone_verified THEN
       /\ users' = users
       /\ last' = Response("settings", u, NoPhone, "400")
     ELSE \E commit_ok \in BOOLEAN :
       IF commit_ok THEN
         /\ users' = [users EXCEPT ![u] = SettingsRow(@, enabled)]
         /\ last' = [Response("settings", u, NoPhone, "ok") EXCEPT !.commits = 1]
       ELSE
         /\ users' = users
         /\ last' = [Response("settings", u, NoPhone, "500")
                       EXCEPT !.commits = 1, !.commit_failed = TRUE,
                              !.rolled_back = TRUE]
  /\ UNCHANGED <<is_configured, inflight, raw, validated>>

\* ------------------------------------------------ get_profile, get_sms_usage
get_profile(u) ==
  /\ last' = Response("profile", u, users[u].phone_number, "ok")
  /\ UNCHANGED <<users, is_configured, inflight, raw, validated>>

get_sms_usage(u) ==
  /\ last' = Response("usage", u, NoPhone,
                      IF check_pro_features(users[u]) THEN "ok" ELSE "permission")
  /\ UNCHANGED <<users, is_configured, inflight, raw, validated>>

\* ------------------------------------------------------------- environment
\* The subscription tier of a row is written by the subscription module and
\* sms_config by the deployment; the router only reads them.
change_subscription(u, tier) ==
  /\ tier # users[u].subscription_tier
  /\ users' = [users EXCEPT ![u].subscription_tier = tier]
  /\ last' = Response("subscription", u, NoPhone, "none")
  /\ UNCHANGED <<is_configured, inflight, raw, validated>>

reconfigure ==
  /\ is_configured' = ~is_configured
  /\ last' = Response("reconfigure", 0, NoPhone, "none")
  /\ UNCHANGED <<users, inflight, raw, validated>>

\* ------------------------------------------------------ sequential requests
AddPhoneNumber    == \E u \in Users, p \in Phones : add_phone_number(u, p)
VerifyPhoneNumber == \E u \in Users, c \in Submitted : verify_phone_number(u, c)
RemovePhoneNumber == \E u \in Users : remove_phone_number(u)
UpdateSmsSettings == \E u \in Users, e \in BOOLEAN : update_sms_settings(u, e)
GetProfile        == \E u \in Users : get_profile(u)
GetSmsUsage       == \E u \in Users : get_sms_usage(u)
ChangeSubscription == \E u \in Users, t \in Tiers : change_subscription(u, t)
Reconfigure       == reconfigure

Next ==
  \/ AddPhoneNumber
  \/ VerifyPhoneNumber
  \/ RemovePhoneNumber
  \/ UpdateSmsSettings
  \/ GetProfile
  \/ GetSmsUsage
  \/ ChangeSubscription
  \/ Reconfigure

Spec == Init /\ [][Next]_vars

\* ------------------------------------- concurrent requests (one session each)
\* Lines 96-128 of add_phone_number: the request loads the caller's row and
\* runs the checks; a request that passes them is in flight until its write.
add_begin(u, p) ==
  /\ ~inflight[u].active
  /\ IF AddPrecondition(u, p) # "ok"
       THEN /\ last' = Response("add", u, p, AddPrecondition(u, p))
            /\ inflight' = inflight
       ELSE /\ last' = last
            /\ inflight' = [inflight EXCEPT ![u] =
                 [ active |-> TRUE, phone |-> p,
                   attempts |-> users[u].phone_verification_attempts ]]
  /\ UNCHANGED <<users, is_configured, raw, validated>>

\* Lines 130-158 of the request in flight.
add_finish(u) ==
  /\ inflight[u].active
  /\ AddEffect(u, inflight[u].phone, inflight[u].attempts)
  /\ inflight' = [inflight EXCEPT ![u] = Idle]
  /\ UNCHANGED <<is_configured, raw, validated>>

AddBegin  == \E u \in Users, p \in Phones : add_begin(u, p)
AddFinish == \E u \in Users : add_finish(u)

NextConc ==
  \/ AddBegin
  \/ AddFinish
  \/ RemovePhoneNumber

SpecConc == Init /\ [][NextConc]_vars

\* ------------------------------- PhoneNumberRequest.validate_phone_number
Digits   == {"1", "2"}
Alphabet == Digits \cup {"+", "-"}

Others(s) == Cardinality({i \in 1..Len(s) : s[i] # "2"})

\* The raw inputs: up to n characters, at most MaxOther of them not "2".
RECURSIVE RawInputs(_)
RawInputs(n) ==
  IF n = 0 THEN {<<>>}
  ELSE LET S == RawInputs(n - 1)
       IN  S \cup { t \in { Append(s, c) : s \in {r \in S : Len(r) = n - 1},
                                           c \in Alphabet } :
                    Others(t) <= MaxOther }

\* re.sub(r'[^\d+]', '', v): drop every character that is neither a digit nor '+'.
IsKept(c) == c \in Digits \cup {"+"}
Cleaned(v) == SelectSeq(v, IsKept)

StartsWith(s, prefix) ==
  /\ Len(s) >= Len(prefix)
  /\ SubSeq(s, 1, Len(prefix)) = prefix

\* Lines 45-48: strip a leading '+1', else a leading '1'.
StripCountryCode(cleaned) ==
  IF StartsWith(cleaned, <<"+", "1">>) THEN SubSeq(cleaned, 3, Len(cleaned))
  ELSE IF StartsWith(cleaned, <<"1">>) THEN SubSeq(cleaned, 2, Len(cleaned))
  ELSE cleaned

validate_phone_number(v) ==
  LET cleaned == StripCountryCode(Cleaned(v))
  IN  IF Len(cleaned) # NationalLen
        THEN [ done |-> TRUE, ok |-> FALSE, value |-> <<>> ]
        ELSE [ done |-> TRUE, ok |-> TRUE, value |-> <<"+", "1">> \o cleaned ]

InitValidator ==
  /\ users = [u \in Users |-> NewUser("FREE")]
  /\ is_configured = FALSE
  /\ last = NoRequest
  /\ inflight = [u \in Users |-> Idle]
  /\ raw \in RawInputs(MaxRawLen)
  /\ validated = NotValidated

Validate ==
  /\ ~validated.done
  /\ validated' = validate_phone_number(raw)
  /\ UNCHANGED <<users, is_configured, last, inflight, raw>>

NextValidator == Validate

SpecValidator == InitValidator /\ [][NextValidator]_vars

\* ==================================================================== claims
Lifecycle(user) ==
  IF user.phone_number = NoPhone THEN "NoPhone"
  ELSE IF user.phone_verified THEN "Verified"
  ELSE "PendingVerification"

\* C1: in every reachable state a user whose sms_enabled is true has a
\* verified phone.
C1_SmsEnabledImpliesVerified ==
  \A u \in Users : users[u].sms_enabled = "True" => users[u].phone_verified

\* C2: in every reachable state, under any interleaving of add_phone_number
\* requests, no two distinct users hold the same phone number.
C2_PhoneNumberUnique ==
  \A u, v \in Users :
    (u # v /\ users[u].phone_number # NoPhone)
      => users[u].phone_number # users[v].phone_number

\* C3: the attempt counter never exceeds 5, and an add_phone_number by an
\* entitled user with SMS configured whose counter is 5 is answered 429 and
\* leaves the users table unchanged, whatever the phone number.
C3_Rejected ==
  (/\ last'.op = "add"
   /\ check_pro_features(users[last'.user])
   /\ is_configured
   /\ users[last'.user].phone_verification_attempts = MaxAttempts)
    => (last'.status = "429" /\ users' = users)

C3_AttemptsCapped ==
  /\ [](\A u \in Users : users[u].phone_verification_attempts <= MaxAttempts)
  /\ [][C3_Rejected]_vars

\* C3 witness: a 429 answered to a user at 5 attempts asking for a number
\* nobody holds.
C3_Witness ==
  /\ last.op = "add"
  /\ last.status = "429"
  /\ users[last.user].phone_verification_attempts = MaxAttempts
  /\ \A u \in Users : users[u].phone_number # last.phone

\* C7: a handler commits at most once, and a failed commit is followed by a
\* rollback and answered 500.
C7_CommitFailureRolledBack ==
  /\ last.commits <= 1
  /\ last.commit_failed => (last.rolled_back /\ last.status = "500")

\* C10: the validator accepts exactly the inputs with 10 significant digits
\* (after an optional country code 1), and every accepted value is "+1"
\* followed by those 10 digits.
DigitsOf(v) == SelectSeq(v, LAMBDA c : c \in Digits)

Significant(v) ==
  LET d == DigitsOf(v)
  IN  IF Len(d) = NationalLen + 1 /\ d[1] = "1" THEN Tail(d) ELSE d

C10_Normalized ==
  validated.done =>
    /\ validated.ok <=> (Len(Significant(raw)) = NationalLen)
    /\ validated.ok => validated.value = <<"+", "1">> \o Significant(raw)
    /\ validated.ok => /\ Len(validated.value) = NationalLen + 2
                       /\ \A i \in 3..Len(validated.value) :
                            validated.value[i] \in Digits

\* C4 (as stated): the lifecycle state of a user changes only from NoPhone to
\* PendingVerification on a successful add_phone_number, from
\* PendingVerification to Verified on a successful verify_phone_number, and
\* from PendingVerification or Verified to NoPhone on remove_phone_number.
C4_StatedTransition(u) ==
  LET from == Lifecycle(users[u])
      to   == Lifecycle(users'[u])
      by(op) == last'.op = op /\ last'.user = u /\ last'.status = "ok"
  IN  from # to =>
        \/ from = "NoPhone" /\ to = "PendingVerification" /\ by("add")
        \/ from = "PendingVerification" /\ to = "Verified" /\ by("verify")
        \/ from # "NoPhone" /\ to = "NoPhone" /\ by("remove")

C4_LifecycleAsStated == [][\A u \in Users : C4_StatedTransition(u)]_vars

\* C4 (amended): as stated, and a successful add_phone_number also takes a
\* Verified user back to PendingVerification.
C4_Transition(u) ==
  LET from == Lifecycle(users[u])
      to   == Lifecycle(users'[u])
      by(op) == last'.op = op /\ last'.user = u /\ last'.status = "ok"
  IN  from # to =>
        \/ from \in {"NoPhone", "Verified"} /\ to = "PendingVerification" /\ by("add")
        \/ from = "PendingVerification" /\ to = "Verified" /\ by("verify")
        \/ from # "NoPhone" /\ to = "NoPhone" /\ by("remove")

C4_Lifecycle == [][\A u \in Users : C4_Transition(u)]_vars

\* C4 witness: a successful add_phone_number has left a user who had been
\* verified (phone_verified_at is set) in PendingVerification.
C4_Witness ==
  /\ last.op = "add"
  /\ last.status = "ok"
  /\ Lifecycle(users[last.user]) = "PendingVerification"
  /\ users[last.user].phone_verified_at

\* C5: a successful add_phone_number increments the caller's attempt counter
\* by exactly 1; the counter changes otherwise only to 0, by a successful
\* verify_phone_number or remove_phone_number of that user.
C5_Step(u) ==
  LET before == users[u].phone_verification_attempts
      after  == users'[u].phone_verification_attempts
      by(op) == last'.op = op /\ last'.user = u /\ last'.status = "ok"
  IN  /\ by("add") => after = before + 1
      /\ after # before =>
           \/ by("add") /\ after = before + 1
           \/ by("verify") /\ after = 0
           \/ by("remove") /\ after = 0

C5_AttemptCounter == [][\A u \in Users : C5_Step(u)]_vars

\* C5 witness: a third successful add_phone_number in a row.
C5_Witness ==
  /\ last.op = "add"
  /\ last.status = "ok"
  /\ users[last.user].phone_verification_attempts = 3

\* C6: add_phone_number answers the first failing precondition in the order
\* entitlement, SMS configured, attempt counter below 5, phone number not
\* held by another user; a rejected request generates, stores and sends no
\* code and leaves the users table unchanged.
C6_Step ==
  last'.op = "add" =>
    LET user     == users[last'.user]
        entitled == user.subscription_tier \in {"PRO", "ENTERPRISE"}
        limited  == user.phone_verification_attempts >= MaxAttempts
        taken    == \E o \in Users : /\ o # last'.user
                                     /\ users[o].phone_number = last'.phone
    IN  /\ ~entitled => last'.status = "permission"
        /\ (entitled /\ ~is_configured) => last'.status = "503"
        /\ (entitled /\ is_configured /\ limited) => last'.status = "429"
        /\ (entitled /\ is_configured /\ ~limited /\ taken) => last'.status = "409"
        /\ last'.status \in {"permission", "503", "429", "409"} =>
             /\ ~last'.code_generated
             /\ ~last'.code_stored
             /\ ~last'.code_sent
             /\ users' = users

C6_PreconditionOrder == [][C6_Step]_vars

\* C6 witness: the permission error answered to a caller for whom every
\* later precondition fails too (SMS not configured, counter at 5, number
\* held by another user).
C6_Witness ==
  /\ last.op = "add"
  /\ last.status = "permission"
  /\ ~is_configured
  /\ users[last.user].phone_verification_attempts >= MaxAttempts
  /\ \E o \in Users : o # last.user /\ users[o].phone_number = last.phone

\* C8 (as stated): a successful verify_phone_number leaves the counter at 0,
\* phone_verified and sms_enabled true and the phone number as it was; a
\* verify_phone_number of a user without phone number is answered 400 and
\* changes nothing.
C8_Success ==
  (last'.op = "verify" /\ last'.status = "ok") =>
    LET u == last'.user
    IN  /\ users'[u].phone_verification_attempts = 0
        /\ users'[u].phone_verified
        /\ users'[u].sms_enabled = "True"
        /\ users'[u].phone_number = users[u].phone_number
        /\ users[u].phone_number # NoPhone

C8_NoPhoneStated ==
  (last'.op = "verify" /\ users[last'.user].phone_number = NoPhone) =>
    (last'.status = "400" /\ users' = users)

C8_VerifyAsStated == [][C8_Success /\ C8_NoPhoneStated]_vars

\* C8 (amended): the same, the second half for an entitled user: a caller
\* without the entitlement is answered the permission error.
C8_NoPhone ==
  (last'.op = "verify" /\ users[last'.user].phone_number = NoPhone) =>
    /\ users' = users
    /\ last'.status = IF check_pro_features(users[last'.user])
                        THEN "400" ELSE "permission"

C8_Verify == [][C8_Success /\ C8_NoPhone]_vars

\* C8 witness: a successful verification of a phone number.
C8_Witness ==
  /\ last.op = "verify"
  /\ last.status = "ok"
  /\ users[last.user].phone_verified
  /\ users[last.user].phone_verification_attempts = 0

\* C9 (as stated): every remove_phone_number leaves the caller with all
\* phone and SMS fields empty and changes nothing else; a verify_phone_number
\* that follows is answered 400 and an add_phone_number that follows is not
\* answered 429.
Cleared(user) ==
  /\ user.phone_number = NoPhone
  /\ ~user.phone_verified
  /\ user.phone_verification_attempts = 0
  /\ ~user.phone_verified_at
  /\ user.sms_enabled = "False"
  /\ user.sms_verification = NoCode

C9_Frame ==
  /\ users'[last'.user].subscription_tier = users[last'.user].subscription_tier
  /\ \A o \in Users \ {last'.user} : users'[o] = users[o]

C9_StatedStep ==
  /\ last'.op = "remove" => (Cleared(users'[last'.user]) /\ C9_Frame)
  /\ (last.op = "remove" /\ last'.user = last.user) =>
       /\ last'.op = "verify" => last'.status = "400"
       /\ last'.op = "add" => last'.status # "429"

C9_RemoveAsStated == [][C9_StatedStep]_vars

\* C9 (amended): a remove_phone_number whose commit succeeds does so (a failed
\* commit is rolled back and changes nothing); the verify_phone_number that
\* follows is answered 400 when the caller is entitled and the permission
\* error otherwise.
C9_Step ==
  /\ (last'.op = "remove" /\ last'.status = "ok") =>
       (Cleared(users'[last'.user]) /\ C9_Frame)
  /\ (last'.op = "remove" /\ last'.status # "ok") =>
       (last'.status = "500" /\ users' = users)
  /\ (last.op = "remove" /\ last.status = "ok" /\ last'.user = last.user) =>
       /\ last'.op = "verify" =>
            last'.status = IF check_pro_features(users[last'.user])
                             THEN "400" ELSE "permission"
       /\ last'.op = "add" => last'.status # "429"

C9_Remove == [][C9_Step]_vars

\* C9 witness: a verify_phone_number answered 400 to a user whose fields
\* are the ones remove_phone_number leaves, beside a user whose phone is
\* verified.
C9_Witness ==
  /\ last.op = "verify"
  /\ last.status = "400"
  /\ Cleared(users[last.user])
  /\ \E o \in Users : o # last.user /\ users[o].phone_verified

====
